---- MODULE Spec2Model ----
(***************************************************************************)
(* Model of pubmed_summary.py: the sent-article ledger (HistoryManager),   *)
(* the batched retrieval and record parsing (PubMedFetcher), the           *)
(* summarizer fallback (AIReporter), the notifier (EmailSender) and the    *)
(* pipeline main().                                                        *)
(*                                                                         *)
(* Time is counted in ticks, TicksPerDay ticks to a day.  A timestamp is   *)
(* kept the way the code keeps it: as the text datetime.isoformat() gives, *)
(* and compared as Python compares strings.                                *)
(*                                                                         *)
(* Spec is main() run after run.  The other specifications take one part  *)
(* alone, on wider inputs: SpecFetch fetch_article_details, SpecParse      *)
(* _parse_article_element, SpecSummarize the summarize step, SpecLedger    *)
(* the HistoryManager, SpecCommit add_sent_articles step by step in        *)
(* several processes.                                                      *)
(***************************************************************************)
EXTENDS Integers, Sequences, FiniteSets, TLC

\* ---------------------------------------------------------------- bounds
MaxRuns == 2
MaxTicks == 2
MaxLedgerTicks == 3
MaxChunks == 1
MaxFetchChunks == 2
MaxWriters == 2
MaxArticles == 3
TicksPerDay == 2
StartDay == 100

\* ------------------------------------------------------ program constants
RetentionDays == 90
batch_size == 20

\* A PMID element's text when the element is empty (Python None), and the
\* marker of an element that find() does not locate.
NoneText == -1
AbsentElem == -2
\* json.dump writes the key None as the text "null".
NullKey == 0

\* -------------------------------------------------------------- strings
\* ASCII codes of the characters of a timestamp.
DotChar == 46
ZeroChar == 48

Digit(d) == ZeroChar + d

\* datetime.isoformat(): fixed-width fields, most significant first; the
\* fractional part is left out when it is zero.
isoformat(t) ==
  LET d == t \div TicksPerDay
      f == t % TicksPerDay
  IN  <<Digit(d \div 100), Digit((d \div 10) % 10), Digit(d % 10)>>
        \o (IF f = 0 THEN <<>> ELSE <<DotChar, Digit(f)>>)

\* Python's str.__gt__: lexicographic, a proper prefix is the smaller.
RECURSIVE StrGreater(_, _)
StrGreater(a, b) ==
  IF a = <<>> THEN FALSE
  ELSE IF b = <<>> THEN TRUE
  ELSE IF Head(a) # Head(b) THEN Head(a) > Head(b)
  ELSE StrGreater(Tail(a), Tail(b))

\* The cutoff with a window two days too long.
cutoff_date_long(t) == isoformat(t - (RetentionDays + 2) * TicksPerDay)

\* (datetime.now() - timedelta(days=90)).isoformat()
cutoff_date(t) == isoformat(t - RetentionDays * TicksPerDay)

\* ------------------------------------------------------- the ledger file
EmptyMap == [k \in {} |-> <<>>]
MissingFile == [exists |-> FALSE, ok |-> FALSE, data |-> EmptyMap]
CorruptFile == [exists |-> TRUE, ok |-> FALSE, data |-> EmptyMap]
JsonFile(m) == [exists |-> TRUE, ok |-> TRUE, data |-> m]

\* The entries a reader of the file gets: none from a missing or
\* unparsable file.
Ledger(st) == IF st.exists /\ st.ok THEN st.data ELSE EmptyMap

\* json.dump's conversion of a dictionary key.
JsonKey(pmid) == IF pmid = NoneText THEN NullKey ELSE pmid

\* The dictionary comprehension "if date > cutoff_date".
Unexpired(m, t) ==
  LET keep == {k \in DOMAIN m : StrGreater(m[k], cutoff_date(t))}
  IN  [k \in keep |-> m[k]]

\* load_history with the comparison turned round (date < cutoff_date).
load_history_reversed(st, t) ==
  IF st.exists /\ st.ok
  THEN {k \in DOMAIN st.data : StrGreater(cutoff_date(t), st.data[k])}
  ELSE {}

\* HistoryManager.load_history
load_history(st, t) ==
  IF st.exists
  THEN IF st.ok THEN DOMAIN Unexpired(st.data, t) ELSE {}
  ELSE {}

\* HistoryManager.is_sent
is_sent(sent, pmid) == pmid \in sent

SeqToSet(s) == {s[k] : k \in 1..Len(s)}
Min(a, b) == IF a < b THEN a ELSE b

\* add_sent_articles without the re-read of the file: the mapping written
\* holds the given identifiers only.
add_sent_data_fresh(st, pmids, t) ==
  [k \in {JsonKey(q) : q \in SeqToSet(pmids)} |-> isoformat(t)]

\* add_sent_articles without the second comprehension: the merged mapping
\* is written as it is.
add_sent_data_unpruned(st, pmids, t) ==
  LET history_data == IF st.exists /\ st.ok THEN st.data ELSE EmptyMap
      keys == {JsonKey(p) : p \in SeqToSet(pmids)}
  IN  [k \in DOMAIN history_data \cup keys |->
         IF k \in keys THEN isoformat(t) ELSE history_data[k]]

\* HistoryManager.add_sent_articles: the mapping written to the file.
add_sent_data(st, pmids, t) ==
  LET history_data == IF st.exists /\ st.ok THEN st.data ELSE EmptyMap
      keys == {JsonKey(p) : p \in SeqToSet(pmids)}
      merged == [k \in DOMAIN history_data \cup keys |->
                   IF k \in keys THEN isoformat(t) ELSE history_data[k]]
  IN  Unexpired(merged, t)

\* ------------------------------------------------------------- records
\* A raw record gives, for each element the parser reads, AbsentStr when
\* find() does not locate it, NoneStr when its text is None (an empty
\* element), or its text.  abstract_elems, author_elems and article_ids
\* are the AbstractText, Author and ArticleId elements in document order;
\* pubdate is <<>> or the one PubDate element.
AbsentStr == "<absent>"
NoneStr == "<None>"
NoTitle == "NO_TITLE"
NoJournal == "UNKNOWN_JOURNAL"

JOURNAL_ABBREVIATIONS ==
  [n \in {"Medical Physics", "Radiation Oncology"} |->
     IF n = "Medical Physics" THEN "Med Phys" ELSE "Radiat Oncol"]

\* full_name.lower() in journal_name.lower(), for the names of the model.
LowerContains(full_name, journal_name) ==
  <<full_name, journal_name>> \in
    { <<"Medical Physics", "Medical Physics">>,
      <<"Medical Physics", "medical physics letters">>,
      <<"Radiation Oncology", "Radiation Oncology">> }

\* get_journal_abbreviation, for a journal name that is a string.
get_journal_abbreviation(journal_name) ==
  IF journal_name \in DOMAIN JOURNAL_ABBREVIATIONS
  THEN JOURNAL_ABBREVIATIONS[journal_name]
  ELSE IF \E f \in DOMAIN JOURNAL_ABBREVIATIONS : LowerContains(f, journal_name)
       THEN JOURNAL_ABBREVIATIONS[
              CHOOSE f \in DOMAIN JOURNAL_ABBREVIATIONS : LowerContains(f, journal_name)]
       ELSE journal_name

\* What an f-string prints for a text: the word None for None.
str(x) == IF x = NoneStr THEN "None" ELSE x

\* " ".join and ", ".join
RECURSIVE join(_, _)
join(sep, texts) ==
  IF texts = <<>> THEN ""
  ELSE IF Len(texts) = 1 THEN texts[1]
       ELSE texts[1] \o sep \o join(sep, Tail(texts))

\* The loop over the AbstractText elements: the text of an element is
\* appended when it is not empty, and, when the element has a Label,
\* "label: text" is appended as well.
RECURSIVE abstract_texts(_)
abstract_texts(abstract_elems) ==
  IF abstract_elems = <<>> THEN <<>>
  ELSE LET abs_elem == Head(abstract_elems)
           text == IF abs_elem.text = NoneStr THEN "" ELSE abs_elem.text
       IN  (IF abs_elem.text # NoneStr /\ abs_elem.text # ""
            THEN <<abs_elem.text>> ELSE <<>>)
             \o (IF abs_elem.label # AbsentStr
                 THEN <<abs_elem.label \o ": " \o text>> ELSE <<>>)
             \o abstract_texts(Tail(abstract_elems))

\* The loop over author_elems[:3]: an author with a LastName and a
\* ForeName element gives "forename lastname".
RECURSIVE author_names(_)
author_names(author_elems) ==
  IF author_elems = <<>> THEN <<>>
  ELSE LET author_elem == Head(author_elems)
       IN  (IF author_elem.lastname # AbsentStr /\ author_elem.forename # AbsentStr
            THEN <<str(author_elem.forename) \o " " \o str(author_elem.lastname)>>
            ELSE <<>>)
             \o author_names(Tail(author_elems))

NoAuthors == "NO_AUTHORS"
EtAl == "et al."

\* authors and author_str of _parse_article_element.
author_str(author_elems) ==
  LET authors == author_names(SubSeq(author_elems, 1, Min(3, Len(author_elems))))
                   \o (IF Len(author_elems) > 3 THEN <<EtAl>> ELSE <<>>)
  IN  IF authors # <<>> THEN join(", ", authors) ELSE NoAuthors

NoDate == "NO_DATE"
MonthNames ==
  <<"Jan", "Feb", "Mar", "Apr", "May", "Jun", "Jul", "Aug", "Sep", "Oct", "Nov", "Dec">>
MonthNumbers ==
  <<"01", "02", "03", "04", "05", "06", "07", "08", "09", "10", "11", "12">>
month_map ==
  [m \in SeqToSet(MonthNames) |->
     MonthNumbers[CHOOSE k \in DOMAIN MonthNames : MonthNames[k] = m]]

\* PubMedFetcher._extract_pub_date: pubdate is <<>> when the record has no
\* PubDate element, else <<[year, month, day]>>.
extract_pub_date(pubdate) ==
  IF pubdate = <<>> THEN NoDate
  ELSE LET year_str == IF pubdate[1].year = AbsentStr THEN "2024" ELSE pubdate[1].year
           month == IF pubdate[1].month = AbsentStr THEN "01" ELSE pubdate[1].month
           day_str == IF pubdate[1].day = AbsentStr THEN "01" ELSE pubdate[1].day
           month_str == IF month \in DOMAIN month_map THEN month_map[month] ELSE month
       IN  str(year_str) \o "/" \o str(month_str) \o "/" \o str(day_str)

\* The loop over the ArticleId elements: the text of the first one of type
\* doi, else the empty string.
RECURSIVE doi_of(_)
doi_of(article_ids) ==
  IF article_ids = <<>> THEN ""
  ELSE IF Head(article_ids).idtype = "doi" THEN Head(article_ids).text
       ELSE doi_of(Tail(article_ids))

\* PubMedFetcher._parse_article_element: <<>> stands for None, <<a>> for
\* the article a (its url, a function of the pmid, is left out).  An empty
\* PMID or title element gives a None field; an empty journal element
\* makes get_journal_abbreviation raise (None.lower()), which the except
\* clause turns into None.
parse_article_element(rec) ==
  IF rec.pmid = AbsentElem THEN <<>>
  ELSE IF rec.journal = NoneStr THEN <<>>
  ELSE << [ pmid |-> rec.pmid,
            title |-> IF rec.title = AbsentStr THEN NoTitle ELSE rec.title,
            abstract |-> join(" ", abstract_texts(rec.abstract_elems)),
            authors |-> author_str(rec.author_elems),
            journal |-> get_journal_abbreviation(
                          IF rec.journal = AbsentStr THEN NoJournal
                          ELSE rec.journal),
            pub_date |-> extract_pub_date(rec.pubdate),
            doi |-> doi_of(rec.article_ids) ] >>

\* The loop over root.findall('.//PubmedArticle') of one chunk.  The
\* progress line prints article_data['title'][:50]: a None title raises
\* TypeError there, after the article was appended, and only ET.ParseError
\* is caught.
RECURSIVE parse_records(_, _)
parse_records(recs, acc) ==
  IF recs = <<>> THEN [articles |-> acc, raised |-> FALSE]
  ELSE LET article_data == parse_article_element(Head(recs))
       IN  IF article_data = <<>> THEN parse_records(Tail(recs), acc)
           ELSE IF article_data[1].title = NoneStr
                THEN [articles |-> acc \o article_data, raised |-> TRUE]
                ELSE parse_records(Tail(recs), acc \o article_data)

\* The dictionary filled without the membership test: the last article of
\* each pmid takes the place of the first.
RECURSIVE unique_articles_last(_, _)
unique_articles_last(arts, kept) ==
  IF arts = <<>> THEN kept
  ELSE IF \E k \in 1..Len(kept) : kept[k].pmid = Head(arts).pmid
       THEN unique_articles_last(
              Tail(arts),
              [k \in 1..Len(kept) |->
                 IF kept[k].pmid = Head(arts).pmid THEN Head(arts) ELSE kept[k]])
       ELSE unique_articles_last(Tail(arts), Append(kept, Head(arts)))

\* The unique_articles dictionary: first article of each pmid, in
\* insertion order.
RECURSIVE unique_articles(_, _)
unique_articles(arts, kept) ==
  IF arts = <<>> THEN kept
  ELSE IF \E k \in 1..Len(kept) : kept[k].pmid = Head(arts).pmid
       THEN unique_articles(Tail(arts), kept)
       ELSE unique_articles(Tail(arts), Append(kept, Head(arts)))

\* The filter stopping at the first sent identifier (break for skip).
RECURSIVE new_pmids_break(_, _)
new_pmids_break(all, sent) ==
  IF all = <<>> THEN <<>>
  ELSE IF is_sent(sent, Head(all)) THEN <<>>
       ELSE <<Head(all)>> \o new_pmids_break(Tail(all), sent)

\* The history filter of search_articles (main always passes a
\* HistoryManager).
RECURSIVE new_pmids(_, _)
new_pmids(all, sent) ==
  IF all = <<>> THEN <<>>
  ELSE IF is_sent(sent, Head(all)) THEN new_pmids(Tail(all), sent)
       ELSE <<Head(all)>> \o new_pmids(Tail(all), sent)

\* ---------------------------------------------------------- summarizer
\* What the summarization service does: it raises, or answers a text with
\* some number of bullet lines.
SummarizerOutcomes ==
  {[raised |-> TRUE, bullets |-> 0]}
    \cup {[raised |-> FALSE, bullets |-> n] : n \in {0, 3, 4, 5}}
\* Those of a run of main.
MainOutcomes == {[raised |-> TRUE, bullets |-> 0], [raised |-> FALSE, bullets |-> 3]}
\* One outcome for each of the n calls of a run of main: the service is
\* down for the whole run or up for the whole run.
MainOutcomeLists(n) == { [k \in 1..n |-> a] : a \in MainOutcomes }
MinAbstract == 50

InsufficientSummary == <<"insufficient", "see original", "see paper", "see link">>
FailedSummary == <<"failed", "see original", "maybe transient", "retry later">>
PadBullet == "see abstract"
ModelBullet(k) == <<"p1", "p2", "p3", "p4", "p5">>[k]

\* The lines of the answer that start with the bullet sign.
points(outcome) == [k \in 1..outcome.bullets |-> ModelBullet(k)]

\* summarize_abstract without the padding loop: the bullets of the answer
\* are returned as they came.
summarize_abstract_unpadded(abstract, outcome) ==
  IF abstract = "" \/ Len(abstract) < MinAbstract THEN InsufficientSummary
  ELSE IF outcome.raised THEN FailedSummary
  ELSE SubSeq(points(outcome), 1, Min(4, outcome.bullets))

\* AIReporter.summarize_abstract (main passes a title that is a string).
summarize_abstract(abstract, outcome) ==
  IF abstract = "" \/ Len(abstract) < MinAbstract THEN InsufficientSummary
  ELSE IF outcome.raised THEN FailedSummary
  ELSE IF outcome.bullets >= 4 THEN SubSeq(points(outcome), 1, 4)
  ELSE [k \in 1..4 |-> IF k <= outcome.bullets THEN ModelBullet(k) ELSE PadBullet]

\* article['summary'] = summarizer.summarize_abstract(...)
WithSummary(a, outcome) ==
  [ pmid |-> a.pmid, title |-> a.title, abstract |-> a.abstract,
    authors |-> a.authors, journal |-> a.journal, pub_date |-> a.pub_date,
    doi |-> a.doi, summary |-> summarize_abstract(a.abstract, outcome) ]

\* The loop of main over the articles, the service answering the k-th
\* call with outcomes[k].
summarize_all(arts, outcomes) ==
  [k \in 1..Len(arts) |-> WithSummary(arts[k], outcomes[k])]

\* ------------------------------------------------- inputs of the model
Iota(lo, n) == [k \in 1..n |-> lo + k - 1]
Pmids(arts) == [k \in 1..Len(arts) |-> arts[k].pmid]

\* Identifier lists the search service returns: short ones, one with a
\* repeated identifier, and ones that need 2..chunks retrieval calls.
ListLengths(chunks) == {0, 1, 2} \cup {batch_size * c + 1 : c \in 1..(chunks - 1)}
IdLists(chunks) ==
  {Iota(lo, n) : lo \in 1..2, n \in ListLengths(chunks)} \cup {<<2, 1, 2>>}
\* The lists of a run of main.
MainLists == {Iota(1, n) : n \in ListLengths(MaxChunks)} \cup {<<2, 1, 2>>}

\* Texts of 60 and of 49 characters.
LongText == "Dose escalation improved local control in the treated cohort"
ShortText == "Dose escalation improved local control in cohorts"
Plain(text) == [label |-> AbsentStr, text |-> text]
Section(label, text) == [label |-> label, text |-> text]
Author(forename, lastname) == [forename |-> forename, lastname |-> lastname]
PubDate(year, month, day) == [year |-> year, month |-> month, day |-> day]
ArticleId(idtype, text) == [idtype |-> idtype, text |-> text]

Good(id, t) ==
  [ pmid |-> id, title |-> t, journal |-> "Medical Physics",
    abstract_elems |-> <<Plain(LongText)>>,
    author_elems |-> <<Author("Ann", "Lee")>>,
    pubdate |-> <<PubDate("2025", "Jan", "02")>>,
    article_ids |-> <<ArticleId("pii", "S1"), ArticleId("doi", "10.1/x")>> ]
Echo(batch) == [k \in 1..Len(batch) |-> Good(batch[k], "t1")]
ReplaceAt(s, p, r) == [k \in 1..Len(s) |-> IF k = p THEN r ELSE s[k]]

\* One malformed variant of a record.
Malformations ==
  {"no_pmid", "empty_pmid", "no_title", "empty_title", "no_journal", "empty_journal"}
Malform(r, m) ==
  CASE m = "no_pmid"       -> [r EXCEPT !.pmid = AbsentElem]
    [] m = "empty_pmid"    -> [r EXCEPT !.pmid = NoneText]
    [] m = "no_title"      -> [r EXCEPT !.title = AbsentStr]
    [] m = "empty_title"   -> [r EXCEPT !.title = NoneStr]
    [] m = "no_journal"    -> [r EXCEPT !.journal = AbsentStr]
    [] m = "empty_journal" -> [r EXCEPT !.journal = NoneStr]

\* A payload is unparsable (ET.fromstring raises ParseError) or a
\* sequence of records.
Unparsable == [ok |-> FALSE, recs |-> <<>>]
Records(recs) == [ok |-> TRUE, recs |-> recs]

\* Payloads the retrieval service answers a batch with in a run of main.
MainPayloads(batch) ==
  { Unparsable,
    Records(Echo(batch)),
    Records(<<Good(1, "t2")>>),
    Records(ReplaceAt(Echo(batch), 1, Malform(Good(batch[1], "t1"), "empty_title"))),
    Records(ReplaceAt(Echo(batch), 1, Malform(Good(batch[1], "t1"), "empty_pmid"))) }

\* Payloads for the retrieval taken alone: also every malformation of the
\* first or the last record, a record with a short abstract, no record.
AllPayloads(batch) ==
  MainPayloads(batch)
    \cup { Records(<<>>),
           Records(Echo(batch) \o <<Good(batch[1], "t2")>>),
           Records(<<Good(batch[1], "t2")>> \o Echo(batch)),
           Records(<<[Good(batch[1], "t1") EXCEPT !.abstract_elems = <<Plain(ShortText)>>]>>) }
    \cup { Records(ReplaceAt(Echo(batch), q, Malform(Good(batch[q], "t1"), m))) :
             q \in {1, Len(batch)}, m \in Malformations }

\* ---------------------------------------------------------------- state
VARIABLES
  now,            \* the clock, in ticks
  ticks,          \* clock steps taken so far
  runs,           \* runs of main started so far
  store,          \* sent_articles_history.json
  sent_pmids,     \* HistoryManager.sent_pmids
  stats,          \* main's stats
  pc,             \* where main is
  abortAt,        \* the step whose exception ended the run
  all_pmids,      \* search_articles: the idlist of the search
  pmid_list,      \* main's pmid_list, the filtered identifiers
  i,              \* fetch_article_details: offset of the next chunk
  articles,       \* fetch_article_details: the accumulated articles
  final_articles, \* main's articles
  requested,      \* the batches requested from the retrieval service
  responses,      \* the payloads it answered with
  sleeps,         \* pacing delays taken by fetch_article_details
  notified,       \* calls of send_summary in this run: article list, outcome
  committed,      \* calls of add_sent_articles in this run: the id lists
  store0,         \* the file when the run of main started
  seen0,          \* the set load_history last returned
  runStart,       \* the clock of that load (between runs: the clock)
  committedAt,    \* key -> clock of the last add_sent_articles that wrote it
  failed,         \* keys of the articles of the last run whose notification
                  \* raised that load_history had not returned, kept until
                  \* the filter of the next run
  missed,         \* identifiers the last fetch_article_details was given
                  \* and returned no article of, kept until the filter of
                  \* the next run
  writers,        \* processes inside add_sent_articles: where each is, its
                  \* pmids and the mapping it is about to write
  article_elem,   \* _parse_article_element alone: the record
  article_data    \* _parse_article_element alone: what it returned

vars ==
  << now, ticks, runs, store, sent_pmids, stats, pc, abortAt, all_pmids,
     pmid_list, i, articles, final_articles, requested, responses, sleeps,
     notified, committed, store0, seen0, runStart, committedAt, failed,
     missed, writers, article_elem, article_data >>

clockVars == <<now, ticks>>
ledgerVars == <<store, sent_pmids, committedAt>>
searchVars == <<all_pmids, pmid_list>>
fetchVars == <<i, articles, requested, responses, sleeps>>
loadVars == <<store0, seen0, runStart>>
logVars == <<notified, committed>>
mainVars == <<stats, pc, abortAt, final_articles>>
otherVars == <<writers, article_elem, article_data>>

NoStats == [total_sent |-> 0]

\* The processes that may be inside add_sent_articles at once, and one
\* that is not inside it.
Writers == 1..MaxWriters
IdleWriter ==
  [pc |-> "idle", pmids |-> <<>>, history_data |-> EmptyMap, sent_pmids |-> {}]

\* The file is missing, unparsable, or an empty mapping; entries come from
\* the runs.
Init ==
  /\ now = StartDay * TicksPerDay
  /\ ticks = 0
  /\ runs = 0
  /\ store \in {MissingFile, CorruptFile, JsonFile(EmptyMap)}
  /\ sent_pmids = {}
  /\ pc = "idle"
  /\ store0 = store
  /\ seen0 = {}
  /\ runStart = now
  /\ committedAt = EmptyMap
  /\ failed = {}
  /\ stats = NoStats
  /\ abortAt = ""
  /\ all_pmids = <<>>
  /\ pmid_list = <<>>
  /\ i = 0
  /\ articles = <<>>
  /\ final_articles = <<>>
  /\ requested = <<>>
  /\ responses = <<>>
  /\ sleeps = 0
  /\ notified = <<>>
  /\ committed = <<>>
  /\ missed = {}
  /\ writers = [w \in Writers |-> IdleWriter]
  /\ article_elem = <<>>
  /\ article_data = <<>>

\* Steps of the clock: a tick, a day, a day less than the window.
Deltas == {1, TicksPerDay, (RetentionDays - 1) * TicksPerDay}
\* Those between the runs of main.
MainDeltas == {1, (RetentionDays - 1) * TicksPerDay}

\* Time passes between runs, and in a run between the notification and
\* the commit.

Tick ==
  /\ pc \in {"idle", "commit"}
  /\ ticks < MaxTicks
  /\ \E d \in MainDeltas : now' = now + d
  /\ ticks' = ticks + 1
  /\ runStart' = IF pc = "idle" THEN now' ELSE runStart
  /\ UNCHANGED << runs, ledgerVars, searchVars, fetchVars, store0, seen0,
                  logVars, mainVars, failed, missed, otherVars >>

\* HistoryManager.__init__: sent_pmids = load_history().
HistoryManager ==
  /\ sent_pmids' = load_history(store, now)
  /\ seen0' = load_history(store, now)
  /\ runStart' = now

\* main starts: a new process, no run overlaps another.
Start ==
  /\ pc = "idle"
  /\ runs < MaxRuns
  /\ runs' = runs + 1
  /\ HistoryManager
  /\ store0' = store
  /\ pc' = "stats"
  /\ UNCHANGED << clockVars, store, committedAt, searchVars, fetchVars,
                  logVars, stats, abortAt, final_articles, failed, missed, otherVars >>

\* HistoryManager.get_stats: json.load is not guarded, an unparsable file
\* raises out of main.
GetStats ==
  /\ pc = "stats"
  /\ IF store.exists /\ ~store.ok
     THEN /\ pc' = "aborted"
          /\ abortAt' = "stats"
          /\ stats' = stats
     ELSE /\ pc' = "bootstrap"
          /\ abortAt' = abortAt
          /\ stats' = [total_sent |-> Cardinality(DOMAIN Ledger(store))]
  /\ UNCHANGED << clockVars, runs, ledgerVars, searchVars, fetchVars,
                  loadVars, logVars, final_articles, failed, missed, otherVars >>

\* main: a missing file is created as an empty mapping.
Bootstrap ==
  /\ pc = "bootstrap"
  /\ store' = IF store.exists THEN store ELSE JsonFile(EmptyMap)
  /\ pc' = "search"
  /\ UNCHANGED << clockVars, runs, sent_pmids, committedAt, stats, abortAt,
                  searchVars, fetchVars, loadVars, logVars, final_articles,
                  failed, missed, otherVars >>

\* PubMedFetcher.search_articles, and main's branch on its result.
Search ==
  /\ pc = "search"
  /\ \E idlist \in MainLists :
       /\ all_pmids' = idlist
       /\ pmid_list' = new_pmids(idlist, sent_pmids)
  /\ pc' = IF pmid_list' = <<>> THEN "notify_empty" ELSE "fetch"
  /\ failed' = {}
  /\ missed' = {}
  /\ UNCHANGED << clockVars, runs, ledgerVars, stats, abortAt, fetchVars,
                  loadVars, logVars, final_articles, otherVars >>

\* The batch of the chunk at offset i: pmid_list[i:i+batch_size].
Batch == SubSeq(pmid_list, i + 1, Min(i + batch_size, Len(pmid_list)))

\* The turn with break for continue: a payload that does not parse ends
\* the loop.
FetchChunkBreak(payload) ==
  /\ requested' = Append(requested, Batch)
  /\ responses' = Append(responses, payload)
  /\ LET r == parse_records(payload.recs, articles)
     IN  /\ articles' = r.articles
         /\ i' = IF ~payload.ok THEN Len(pmid_list)
                 ELSE IF r.raised THEN i ELSE i + batch_size
         /\ sleeps' = IF payload.ok /\ ~r.raised /\ i + batch_size < Len(pmid_list)
                      THEN sleeps + 1 ELSE sleeps
         /\ pc' = IF r.raised THEN "aborted" ELSE pc
         /\ abortAt' = IF r.raised THEN "fetch" ELSE abortAt
  /\ UNCHANGED << clockVars, runs, ledgerVars, stats, searchVars, loadVars,
                  logVars, final_articles, failed, missed, otherVars >>

\* PubMedFetcher.fetch_article_details: one turn of the loop over the
\* chunks, the retrieval service answering with payload.
FetchChunkWith(payload) ==
  /\ requested' = Append(requested, Batch)
  /\ responses' = Append(responses, payload)
  /\ IF ~payload.ok
     THEN \* except ET.ParseError: continue
          /\ articles' = articles
          /\ i' = i + batch_size
          /\ sleeps' = sleeps
          /\ pc' = pc
          /\ abortAt' = abortAt
     ELSE LET r == parse_records(payload.recs, articles)
          IN  /\ articles' = r.articles
              /\ IF r.raised
                 THEN /\ i' = i
                      /\ sleeps' = sleeps
                      /\ pc' = "aborted"
                      /\ abortAt' = "fetch"
                 ELSE /\ i' = i + batch_size
                      /\ sleeps' = IF i + batch_size < Len(pmid_list)
                                   THEN sleeps + 1 ELSE sleeps
                      /\ pc' = pc
                      /\ abortAt' = abortAt
  /\ UNCHANGED << clockVars, runs, ledgerVars, stats, searchVars, loadVars,
                  logVars, final_articles, failed, missed, otherVars >>

FetchChunk ==
  /\ pc = "fetch"
  /\ i < Len(pmid_list)
  /\ \E payload \in MainPayloads(Batch) : FetchChunkWith(payload)

\* The same turn with the wider set of payloads.
FetchChunkAny ==
  /\ pc = "fetch"
  /\ i < Len(pmid_list)
  /\ \E payload \in AllPayloads(Batch) : FetchChunkWith(payload)

\* fetch_article_details: after the loop (or at once, for an empty list)
\* the duplicates are removed and the list is returned.
FetchReturn ==
  /\ pc = "fetch"
  /\ i >= Len(pmid_list)
  /\ final_articles' = unique_articles(articles, <<>>)
  /\ missed' = SeqToSet(pmid_list) \ SeqToSet(Pmids(final_articles'))
  /\ pc' = "summarize"
  /\ UNCHANGED << clockVars, runs, ledgerVars, stats, abortAt, searchVars,
                  fetchVars, loadVars, logVars, failed, otherVars >>

\* main, step 3: every article gets its summary.
Summarize ==
  /\ pc = "summarize"
  /\ IF final_articles = <<>>
     THEN final_articles' = final_articles
     ELSE \E outcomes \in MainOutcomeLists(Len(final_articles)) :
            final_articles' = summarize_all(final_articles, outcomes)
  /\ pc' = "notify"
  /\ UNCHANGED << clockVars, runs, ledgerVars, stats, abortAt, searchVars,
                  fetchVars, loadVars, logVars, failed, missed, otherVars >>

\* send_summary without the re-raise: the exception is logged and
\* swallowed.
send_summary_swallow(handed, ok, next) ==
  /\ notified' = Append(notified, [articles |-> handed, ok |-> ok])
  /\ pc' = next
  /\ abortAt' = abortAt
  /\ failed' = IF ok THEN failed
               ELSE {JsonKey(q) : q \in SeqToSet(Pmids(handed))} \ seen0

\* EmailSender.send_summary: the transport succeeds or raises, and the
\* exception is re-raised.
send_summary(handed, ok, next) ==
  /\ notified' = Append(notified, [articles |-> handed, ok |-> ok])
  /\ IF ok
     THEN /\ pc' = next
          /\ abortAt' = abortAt
          /\ failed' = failed
     ELSE /\ pc' = "aborted"
          /\ abortAt' = "notify"
          /\ failed' = {JsonKey(q) : q \in SeqToSet(Pmids(handed))} \ seen0

\* main, the branch "if not pmid_list": notify with no article, return.
NotifyEmpty ==
  /\ pc = "notify_empty"
  /\ \E ok \in BOOLEAN : send_summary(<<>>, ok, "done")
  /\ UNCHANGED << clockVars, runs, ledgerVars, stats, searchVars, fetchVars,
                  loadVars, committed, final_articles, missed, otherVars >>

\* main, step 4.
Notify ==
  /\ pc = "notify"
  /\ \E ok \in BOOLEAN : send_summary(final_articles, ok, "commit")
  /\ UNCHANGED << clockVars, runs, ledgerVars, stats, searchVars, fetchVars,
                  loadVars, committed, final_articles, missed, otherVars >>

\* HistoryManager.add_sent_articles
add_sent_articles(pmids) ==
  /\ store' = JsonFile(add_sent_data(store, pmids, now))
  /\ sent_pmids' = sent_pmids \cup SeqToSet(pmids)
  /\ committedAt' =
       [k \in DOMAIN committedAt \cup {JsonKey(q) : q \in SeqToSet(pmids)} |->
          IF k \in {JsonKey(q) : q \in SeqToSet(pmids)} THEN now
          ELSE committedAt[k]]

\* The list with the filtered identifiers in the place of the pmids of
\* the articles.
sent_pmids_filtered(arts, filtered) == filtered

\* main: sent_pmids = [article['pmid'] for article in articles]
sent_pmids_of(arts, filtered) == Pmids(arts)

\* main, step 5: "if articles".
Commit ==
  /\ pc = "commit"
  /\ IF final_articles # <<>>
     THEN /\ add_sent_articles(sent_pmids_of(final_articles, pmid_list))
          /\ committed' = Append(committed, sent_pmids_of(final_articles, pmid_list))
     ELSE UNCHANGED <<store, sent_pmids, committed, committedAt>>
  /\ pc' = "done"
  /\ UNCHANGED << clockVars, runs, stats, abortAt, searchVars, fetchVars,
                  loadVars, notified, final_articles, failed, missed, otherVars >>

\* The process ends, by return or by the exception: its memory is gone,
\* the file stays.
Exit ==
  /\ pc \in {"done", "aborted"}
  /\ pc' = "idle"
  /\ sent_pmids' = {}
  /\ stats' = NoStats
  /\ abortAt' = ""
  /\ all_pmids' = <<>>
  /\ pmid_list' = <<>>
  /\ i' = 0
  /\ articles' = <<>>
  /\ final_articles' = <<>>
  /\ requested' = <<>>
  /\ responses' = <<>>
  /\ sleeps' = 0
  /\ notified' = <<>>
  /\ committed' = <<>>
  /\ store0' = store
  /\ seen0' = {}
  /\ runStart' = now
  /\ UNCHANGED << clockVars, runs, store, committedAt, failed, missed, otherVars >>

Next ==
  \/ Tick
  \/ Start
  \/ GetStats
  \/ Bootstrap
  \/ Search
  \/ FetchChunk
  \/ FetchReturn
  \/ Summarize
  \/ NotifyEmpty
  \/ Notify
  \/ Commit
  \/ Exit

Spec == Init /\ [][Next]_vars

\* ------------------------------------------ fetch_article_details alone
\* Every list of the model, every payload of the wider set.
InitFetch ==
  /\ now = StartDay * TicksPerDay
  /\ ticks = 0
  /\ runs = 1
  /\ store = JsonFile(EmptyMap)
  /\ sent_pmids = {}
  /\ pc = "fetch"
  /\ pmid_list \in IdLists(MaxFetchChunks)
  /\ store0 = store
  /\ seen0 = {}
  /\ runStart = now
  /\ committedAt = EmptyMap
  /\ failed = {}
  /\ stats = NoStats
  /\ abortAt = ""
  /\ all_pmids = pmid_list
  /\ i = 0
  /\ articles = <<>>
  /\ final_articles = <<>>
  /\ requested = <<>>
  /\ responses = <<>>
  /\ sleeps = 0
  /\ notified = <<>>
  /\ committed = <<>>
  /\ missed = {}
  /\ writers = [w \in Writers |-> IdleWriter]
  /\ article_elem = <<>>
  /\ article_data = <<>>

NextFetch ==
  \/ FetchChunkAny
  \/ FetchReturn

SpecFetch == InitFetch /\ [][NextFetch]_vars

\* ------------------------------------------------ the summarize step alone
\* main at step 3, with articles fetch_article_details can return (distinct
\* pmids, titles that are strings) whose abstract is empty, 49 characters
\* or 60 characters long, and every outcome of the service for each.
AbstractKinds == {<<>>, <<Plain(ShortText)>>, <<Plain(LongText)>>}
Fetched(id, abstract_elems) ==
  parse_article_element([Good(id, "t1") EXCEPT !.abstract_elems = abstract_elems])[1]
ArticleLists ==
  UNION { { [k \in 1..n |-> Fetched(k, kinds[k])] : kinds \in [1..n -> AbstractKinds] } :
          n \in 0..MaxArticles }

InitSummarize ==
  /\ now = StartDay * TicksPerDay
  /\ ticks = 0
  /\ runs = 1
  /\ store = JsonFile(EmptyMap)
  /\ sent_pmids = {}
  /\ pc = "summarize"
  /\ final_articles \in ArticleLists
  /\ articles = final_articles
  /\ pmid_list = Pmids(final_articles)
  /\ all_pmids = pmid_list
  /\ i = Len(pmid_list)
  /\ store0 = store
  /\ seen0 = {}
  /\ runStart = now
  /\ committedAt = EmptyMap
  /\ failed = {}
  /\ stats = NoStats
  /\ abortAt = ""
  /\ requested = <<>>
  /\ responses = <<>>
  /\ sleeps = 0
  /\ notified = <<>>
  /\ committed = <<>>
  /\ missed = {}
  /\ writers = [w \in Writers |-> IdleWriter]
  /\ article_elem = <<>>
  /\ article_data = <<>>

\* Step 3 with the wider set of outcomes.
SummarizeAny ==
  /\ pc = "summarize"
  /\ IF final_articles = <<>>
     THEN final_articles' = final_articles
     ELSE \E outcomes \in [1..Len(final_articles) -> SummarizerOutcomes] :
            final_articles' = summarize_all(final_articles, outcomes)
  /\ pc' = "notify"
  /\ UNCHANGED << clockVars, runs, ledgerVars, stats, abortAt, searchVars,
                  fetchVars, loadVars, logVars, failed, missed, otherVars >>

NextSummarize ==
  \/ SummarizeAny
  \/ Notify

SpecSummarize == InitSummarize /\ [][NextSummarize]_vars

\* ------------------------------------------- add_sent_articles in steps
\* Processes, each with its own HistoryManager, call add_sent_articles
\* once; the file is theirs in common.  The call is taken in the steps in
\* which it touches the file: it reads it, opens it for writing, writes
\* it.  A process can be stopped once it has opened the file.
WriterLists == {<<1>>, <<2>>, <<1, 2>>}

\* The file before the calls: missing, unparsable, the empty mapping, or
\* the mapping an earlier run wrote a day ago.
EarlierAt == [k \in {3} |-> StartDay * TicksPerDay - TicksPerDay]
Earlier == [k \in DOMAIN EarlierAt |-> isoformat(EarlierAt[k])]

InitCommit ==
  /\ now = StartDay * TicksPerDay
  /\ ticks = 0
  /\ runs = 0
  /\ store \in {MissingFile, CorruptFile, JsonFile(EmptyMap), JsonFile(Earlier)}
  /\ committedAt = IF store = JsonFile(Earlier) THEN EarlierAt ELSE EmptyMap
  /\ sent_pmids = {}
  /\ pc = "idle"
  /\ store0 = store
  /\ seen0 = {}
  /\ runStart = now
  /\ failed = {}
  /\ stats = NoStats
  /\ abortAt = ""
  /\ all_pmids = <<>>
  /\ pmid_list = <<>>
  /\ i = 0
  /\ articles = <<>>
  /\ final_articles = <<>>
  /\ requested = <<>>
  /\ responses = <<>>
  /\ sleeps = 0
  /\ notified = <<>>
  /\ committed = <<>>
  /\ missed = {}
  /\ writers = [w \in Writers |-> IdleWriter]
  /\ article_elem = <<>>
  /\ article_data = <<>>

\* Lines 80-101: the file is read and the mapping to write is built in
\* memory.
WriterRead(w) ==
  /\ writers[w].pc = "idle"
  /\ \E pmids \in WriterLists :
       writers' = [writers EXCEPT ![w] =
                     [ pc |-> "open", pmids |-> pmids,
                       history_data |-> add_sent_data(store, pmids, now),
                       sent_pmids |-> writers[w].sent_pmids \cup SeqToSet(pmids) ]]
  /\ store0' = store
  /\ UNCHANGED << clockVars, runs, ledgerVars, searchVars, fetchVars, seen0,
                  runStart, logVars, mainVars, failed, missed, article_elem,
                  article_data >>

\* Line 104: open(self.history_file, 'w') leaves the file empty, which is
\* not a JSON text.
WriterOpen(w) ==
  /\ writers[w].pc = "open"
  /\ store' = CorruptFile
  /\ writers' = [writers EXCEPT ![w].pc = "dump"]
  /\ UNCHANGED << clockVars, runs, sent_pmids, committedAt, searchVars,
                  fetchVars, loadVars, logVars, mainVars, failed, missed,
                  article_elem, article_data >>

\* Line 105: json.dump and the close of the file.
WriterDump(w) ==
  /\ writers[w].pc = "dump"
  /\ store' = JsonFile(writers[w].history_data)
  /\ writers' = [writers EXCEPT ![w].pc = "done"]
  /\ UNCHANGED << clockVars, runs, sent_pmids, committedAt, searchVars,
                  fetchVars, loadVars, logVars, mainVars, failed, missed,
                  article_elem, article_data >>

\* The process is stopped between the open and the end of the write.
WriterStop(w) ==
  /\ writers[w].pc = "dump"
  /\ writers' = [writers EXCEPT ![w].pc = "stopped"]
  /\ UNCHANGED << clockVars, runs, ledgerVars, searchVars, fetchVars,
                  loadVars, logVars, mainVars, failed, missed, article_elem,
                  article_data >>

NextCommit ==
  \/ \E w \in Writers : WriterRead(w)
  \/ \E w \in Writers : WriterOpen(w)
  \/ \E w \in Writers : WriterDump(w)
  \/ \E w \in Writers : WriterStop(w)

SpecCommit == InitCommit /\ [][NextCommit]_vars

\* ------------------------------------------ _parse_article_element alone
\* Records whose elements are present with a text, present and empty, or
\* missing: the identifier, the title, the journal title, 0 to 5 authors
\* with or without both name parts, plain and labelled abstract sections,
\* the date and the article identifiers.
AuthorLists ==
  LET a == Author("Ann", "Lee")
      b == Author("Bo", "Kim")
      n == Author(AbsentStr, "Ng")
      e == Author(NoneStr, "Oh")
  IN  { <<>>, <<a>>, <<n>>, <<e>>, <<a, b>>, <<a, b, a>>, <<a, b, a, b>>,
        <<a, n, b, a, b>>, <<a, b, n, a>>, <<n, n, n>>, <<n, n, n, a>>,
        <<n, n, n, n, n>> }
AbstractLists ==
  { <<>>, <<Plain(LongText)>>, <<Plain(NoneStr)>>, <<Plain("p1"), Plain("p2")>>,
    <<Section("BACKGROUND", "bg")>>, <<Section("BACKGROUND", NoneStr)>>,
    <<Section("BACKGROUND", "bg"), Section("METHODS", "me")>>,
    <<Plain("p1"), Section("RESULTS", "re")>> }
DatesAndIds ==
  { [pubdate |-> <<>>, article_ids |-> <<>>],
    [pubdate |-> <<PubDate("2025", "Jan", "02")>>,
     article_ids |-> <<ArticleId("pii", "S1"), ArticleId("doi", "10.1/x")>>],
    [pubdate |-> <<PubDate("2025", AbsentStr, AbsentStr)>>,
     article_ids |-> <<ArticleId("pii", "S1")>>],
    [pubdate |-> <<PubDate(NoneStr, "Mar", NoneStr)>>,
     article_ids |-> <<ArticleId("doi", NoneStr), ArticleId("doi", "10.1/y")>>] }
ArticleElems ==
  { [ pmid |-> id, title |-> t, journal |-> j, abstract_elems |-> ab,
      author_elems |-> au, pubdate |-> d.pubdate, article_ids |-> d.article_ids ] :
      id \in {1, NoneText, AbsentElem},
      t \in {"t1", AbsentStr, NoneStr},
      j \in {"Medical Physics", "medical physics letters", AbsentStr, NoneStr},
      ab \in AbstractLists, au \in AuthorLists, d \in DatesAndIds }

InitParse ==
  /\ now = StartDay * TicksPerDay
  /\ ticks = 0
  /\ runs = 1
  /\ store = JsonFile(EmptyMap)
  /\ sent_pmids = {}
  /\ pc = "parse"
  /\ article_elem \in {<<rec>> : rec \in ArticleElems}
  /\ article_data = <<>>
  /\ final_articles = <<>>
  /\ articles = <<>>
  /\ pmid_list = <<>>
  /\ all_pmids = <<>>
  /\ i = 0
  /\ store0 = store
  /\ seen0 = {}
  /\ runStart = now
  /\ committedAt = EmptyMap
  /\ failed = {}
  /\ stats = NoStats
  /\ abortAt = ""
  /\ requested = <<>>
  /\ responses = <<>>
  /\ sleeps = 0
  /\ notified = <<>>
  /\ committed = <<>>
  /\ missed = {}
  /\ writers = [w \in Writers |-> IdleWriter]

\* article_data = self._parse_article_element(article_elem)
ParseElement ==
  /\ pc = "parse"
  /\ article_data' = parse_article_element(article_elem[1])
  /\ pc' = "parsed"
  /\ UNCHANGED << clockVars, runs, ledgerVars, stats, abortAt, searchVars,
                  fetchVars, loadVars, logVars, final_articles, failed, missed,
                  writers, article_elem >>

NextParse == ParseElement

SpecParse == InitParse /\ [][NextParse]_vars

\* ------------------------------------------------ the HistoryManager alone
\* A HistoryManager is constructed, and add_sent_articles is called, at
\* any time, on identifier lists of the model.
LedgerLists == {<<>>, <<1>>, <<1, 2>>, <<NoneText, 2>>}

LedgerLoad ==
  /\ pc = "idle"
  /\ HistoryManager
  /\ UNCHANGED << clockVars, runs, store, store0, committedAt, searchVars,
                  fetchVars, logVars, mainVars, failed, missed, otherVars >>

LedgerAdd ==
  /\ pc = "idle"
  /\ \E pmids \in LedgerLists :
       /\ add_sent_articles(pmids)
       /\ committed' = <<pmids>>
  /\ UNCHANGED << clockVars, runs, searchVars, fetchVars, loadVars, notified,
                  mainVars, failed, missed, otherVars >>

LedgerTick ==
  /\ ticks < MaxLedgerTicks
  /\ \E d \in Deltas : now' = now + d
  /\ ticks' = ticks + 1
  /\ UNCHANGED << runs, ledgerVars, searchVars, fetchVars, loadVars, logVars,
                  mainVars, failed, missed, otherVars >>

NextLedger ==
  \/ LedgerTick
  \/ LedgerLoad
  \/ LedgerAdd

SpecLedger == Init /\ [][NextLedger]_vars

\* ================================================================ claims
Window == RetentionDays * TicksPerDay
Keys(pmids) == {JsonKey(q) : q \in SeqToSet(pmids)}
Last(s) == s[Len(s)]

\* The retrieval service answered every batch of this run with records of
\* requested identifiers only.
OnlyRequested ==
  \A c \in 1..Len(responses) :
    \A r \in 1..Len(responses[c].recs) :
      responses[c].recs[r].pmid \in SeqToSet(requested[c])

\* C1: when send_summary raises, add_sent_articles is not called in that
\* run and the ledger the file holds is the one the run started with; the
\* set the next run loads holds none of the failed run's identifiers that
\* the failed run's own load had not returned, and the filter of the next
\* run lets every one of them through.
C1_NoCommitOnNotifyFailure ==
  /\ [](pc = "aborted" /\ abortAt = "notify"
          => committed = <<>> /\ Ledger(store) = Ledger(store0))
  /\ [](pc \in {"stats", "bootstrap", "search"} => failed \cap sent_pmids = {})
  /\ [][pc = "search" /\ pc' # "search"
          => \A k \in 1..Len(all_pmids') :
               JsonKey(all_pmids'[k]) \in failed
                 => all_pmids'[k] \in SeqToSet(pmid_list')]_vars

\* The next run has loaded the ledger after a run whose notification of
\* some articles raised.
C1_Witness ==
  /\ pc = "search"
  /\ failed # {}
  /\ failed \cap sent_pmids = {}
  /\ runs = 2

\* C2: an identifier committed by an earlier run is in no article list
\* handed to the notifier by a run that started less than 90 days after
\* that commit, when the retrieval service returns requested records only.
C2_NoDuplicateNotification ==
  (committed = <<>> /\ OnlyRequested)
    => \A n \in 1..Len(notified) :
         \A k \in DOMAIN committedAt :
           runStart - committedAt[k] < Window
             => k \notin Keys(Pmids(notified[n].articles))

\* A later run, started inside the window of an identifier the search
\* returned again, has handed other articles to the notifier.
C2_Witness ==
  /\ committed = <<>>
  /\ OnlyRequested
  /\ notified # <<>>
  /\ notified[1].articles # <<>>
  /\ \E k \in DOMAIN committedAt :
       /\ runStart - committedAt[k] < Window
       /\ k \in SeqToSet(all_pmids)

\* C3: the filter of search_articles returns the identifiers of the search
\* result that are not in the loaded set, in their order and with their
\* repetitions, and leaves the in-memory set and the file as they were, so
\* that filtering again gives the same list.
C3_FilterExact ==
  [][pc = "search" /\ pc' # "search"
       => /\ pmid_list' = SelectSeq(all_pmids', LAMBDA q : q \notin sent_pmids)
          /\ sent_pmids' = sent_pmids
          /\ store' = store
          /\ new_pmids(all_pmids', sent_pmids') = pmid_list']_vars

\* The filter has dropped some identifiers of the search result and kept
\* others.
C3_Witness ==
  /\ pc = "fetch"
  /\ Len(pmid_list) > 0
  /\ Len(pmid_list) < Len(all_pmids)
  /\ \E k \in 1..Len(all_pmids) : all_pmids[k] \in sent_pmids

\* C4: an identifier whose last add_sent_articles was at time T is in the
\* set load_history returns 89 days after T and is not in the set it
\* returns 91 days after T.
C4_RetentionBoundary ==
  \A k \in DOMAIN committedAt :
    /\ runStart = committedAt[k] + (RetentionDays - 1) * TicksPerDay => k \in seen0
    /\ runStart = committedAt[k] + (RetentionDays + 1) * TicksPerDay => k \notin seen0

\* One load, 91 days after the commit of one identifier and 89 days after
\* the commit of another.
C4_Witness ==
  \E k1, k2 \in DOMAIN committedAt :
    /\ runStart = committedAt[k1] + (RetentionDays + 1) * TicksPerDay
    /\ k1 \notin seen0
    /\ runStart = committedAt[k2] + (RetentionDays - 1) * TicksPerDay
    /\ k2 \in seen0

\* The first article of the accumulated list with the pmid id.
FirstWith(arts, id) ==
  arts[CHOOSE k \in 1..Len(arts) :
         /\ arts[k].pmid = id
         /\ \A j \in 1..(k - 1) : arts[j].pmid # id]
FirstIndex(arts, id) ==
  CHOOSE k \in 1..Len(arts) :
    /\ arts[k].pmid = id
    /\ \A j \in 1..(k - 1) : arts[j].pmid # id

\* C5: what fetch_article_details returns holds one article for each pmid
\* of the accumulated list, the first accumulated with that pmid, in the
\* order in which the pmids were first seen.
C5_DedupFirstSeen ==
  pc = "summarize"
    => /\ SeqToSet(Pmids(final_articles)) = SeqToSet(Pmids(articles))
       /\ Cardinality(SeqToSet(Pmids(final_articles))) = Len(final_articles)
       /\ \A k \in 1..Len(final_articles) :
            final_articles[k] = FirstWith(articles, final_articles[k].pmid)
       /\ \A k \in 1..(Len(final_articles) - 1) :
            FirstIndex(articles, final_articles[k].pmid)
              < FirstIndex(articles, final_articles[k + 1].pmid)

\* The accumulated list held two articles of one pmid with different
\* titles, and others after them.
C5_Witness ==
  /\ pc = "summarize"
  /\ Len(final_articles) > 1
  /\ \E j, k \in 1..Len(articles) :
       /\ j < k
       /\ articles[j].pmid = articles[k].pmid
       /\ articles[j].title # articles[k].title

\* C6: after add_sent_articles(ids) the file maps the key of every given
\* identifier to the timestamp of the call, and every entry it held that
\* is younger than 90 days and is not one of those keys is still there
\* with its timestamp.  (A mapping holds a key once.)
C6_CommitMergesAndPreserves ==
  [][store' # store \/ committed' # committed
       => LET ids == Last(committed')
          IN  /\ store'.exists /\ store'.ok
              /\ \A k \in Keys(ids) :
                   k \in DOMAIN store'.data /\ store'.data[k] = isoformat(now)
              /\ \A k \in DOMAIN Ledger(store) \ Keys(ids) :
                   now - committedAt[k] < Window
                     => k \in DOMAIN store'.data /\ store'.data[k] = store.data[k]
     ]_vars

\* A commit has added an identifier to a file that keeps a younger entry
\* of an earlier commit.
C6_Witness ==
  /\ committed # <<>>
  /\ store.exists /\ store.ok
  /\ \E k1, k2 \in DOMAIN store.data :
       /\ k1 \notin Keys(Last(committed))
       /\ k2 \in Keys(Last(committed))
       /\ committedAt[k1] < committedAt[k2]
       /\ store.data[k2] = isoformat(now)

\* The run is over and had completed its search.
SearchedAndEnded == pc \in {"done", "aborted"} /\ abortAt # "stats"

\* C7: a run of main that completes the search calls the notifier exactly
\* once; with no filtered identifier, or no article retrieved, the notifier
\* gets an empty list and the ledger the file holds is unchanged; the
\* ledger is committed at most once, and only after a notification of a
\* non-empty list that did not raise.
C7_NotifyOnceCommitAfter ==
  /\ SearchedAndEnded => Len(notified) = 1
  /\ (SearchedAndEnded /\ notified # <<>>
        /\ (pmid_list = <<>> \/ final_articles = <<>>))
       => /\ notified[1].articles = <<>>
          /\ Ledger(store) = Ledger(store0)
  /\ Len(committed) <= 1
  /\ committed # <<>>
       => /\ Len(notified) = 1
          /\ notified[1].ok
          /\ notified[1].articles # <<>>

\* C8: a missing or unparsable ledger file is read as an empty ledger and
\* the run goes on to the search.
C8_ReadFailureNeverBlocks ==
  (~store0.exists \/ ~store0.ok)
    => /\ pc \in {"stats", "bootstrap", "search"} => sent_pmids = {}
       /\ ~(pc = "aborted" /\ abortAt = "stats")

\* The articles that parsing the records of the parsable payloads gives,
\* in the order of the chunks.
RECURSIVE ParsedOf(_)
ParsedOf(recs) ==
  IF recs = <<>> THEN <<>>
  ELSE parse_article_element(Head(recs)) \o ParsedOf(Tail(recs))
RECURSIVE ParsableArticles(_)
ParsableArticles(resp) ==
  IF resp = <<>> THEN <<>>
  ELSE (IF Head(resp).ok THEN ParsedOf(Head(resp).recs) ELSE <<>>)
         \o ParsableArticles(Tail(resp))
RECURSIVE Concat(_)
Concat(ss) == IF ss = <<>> THEN <<>> ELSE Head(ss) \o Concat(Tail(ss))

\* C9: a chunk whose payload does not parse adds no article and does not
\* end the loop; when fetch_article_details returns, every chunk of the
\* list was requested and the result is the deduplicated articles of the
\* chunks whose payload parsed.
C9_ChunkFailureIsolated ==
  /\ [][(Len(responses') > Len(responses) /\ ~Last(responses').ok)
          => /\ articles' = articles
             /\ pc' = "fetch"
             /\ i' = i + batch_size]_vars
  /\ [](pc = "summarize"
          => /\ Concat(requested) = pmid_list
             /\ Len(responses) = Len(requested)
             /\ final_articles = unique_articles(ParsableArticles(responses), <<>>))

\* fetch_article_details has returned articles of a chunk requested after
\* one whose payload did not parse.
C9_Witness ==
  /\ pc = "summarize"
  /\ final_articles # <<>>
  /\ \E c \in 1..(Len(responses) - 1) :
       /\ ~responses[c].ok
       /\ responses[c + 1].ok
       /\ responses[c + 1].recs # <<>>

\* A record is malformed when an element the parser reads is missing or
\* empty.
Malformed(rec) ==
  \/ rec.pmid \in {AbsentElem, NoneText}
  \/ rec.title \in {AbsentStr, NoneStr}
  \/ rec.journal \in {AbsentStr, NoneStr}
RECURSIVE WellFormedOf(_)
WellFormedOf(recs) ==
  IF recs = <<>> THEN <<>>
  ELSE (IF Malformed(Head(recs)) THEN <<>> ELSE parse_article_element(Head(recs)))
         \o WellFormedOf(Tail(recs))
RECURSIVE WellFormedArticles(_)
WellFormedArticles(resp) ==
  IF resp = <<>> THEN <<>>
  ELSE (IF Head(resp).ok THEN WellFormedOf(Head(resp).recs) ELSE <<>>)
         \o WellFormedArticles(Tail(resp))

\* C10: no malformed record makes fetch_article_details raise, and the
\* records of its chunk and of the later chunks that are not malformed are
\* still returned.
C10_MalformedRecordSkipped ==
  /\ ~(pc = "aborted" /\ abortAt = "fetch")
  /\ pc = "summarize"
       => SeqToSet(Pmids(WellFormedArticles(responses)))
            \subseteq SeqToSet(Pmids(final_articles))

\* An article carries a summary of exactly 4 bullet strings, none empty.
FourBullets(a) ==
  /\ "summary" \in DOMAIN a
  /\ Len(a.summary) = 4
  /\ \A k \in 1..4 : a.summary[k] # ""

\* C11: the summarize step never raises and drops no article, and after it
\* every article, and so every article handed to the notifier, carries a
\* summary of exactly 4 non-empty bullets, whatever the service did for it
\* or for the article before it and however short its abstract is.
C11_SummaryAlwaysFourBullets ==
  /\ ~(pc = "aborted" /\ abortAt = "summarize")
  /\ pc = "notify"
       => /\ Pmids(final_articles) = Pmids(articles)
          /\ \A k \in 1..Len(final_articles) : FourBullets(final_articles[k])
  /\ \A n \in 1..Len(notified) :
       /\ Pmids(notified[n].articles) = Pmids(articles)
       /\ \A k \in 1..Len(notified[n].articles) : FourBullets(notified[n].articles[k])

\* The notifier was handed an article whose summary is the failure
\* message, followed by one whose answer of 3 bullets was padded, and an
\* article with an empty abstract.
C11_Witness ==
  /\ notified # <<>>
  /\ \E k \in 1..(Len(notified[1].articles) - 1) :
       /\ notified[1].articles[k].summary = FailedSummary
       /\ notified[1].articles[k + 1].summary = <<"p1", "p2", "p3", PadBullet>>
  /\ \E k \in 1..Len(notified[1].articles) :
       /\ notified[1].articles[k].abstract = ""
       /\ notified[1].articles[k].summary = InsufficientSummary

\* The entry of key k, last written at the clock at[k], is older than the
\* window at the clock t.
ExpiredAt(at, k, t) == t - at[k] > Window
Expired(k, t) == ExpiredAt(committedAt, k, t)

\* C12 (as stated): right after a load, and right after a commit, neither
\* the set load_history returned nor the mapping the file holds has an
\* entry older than 90 days.
C12_NoOldEntryAnywhere ==
  /\ [](runStart = now
          => \A k \in seen0 \cup DOMAIN Ledger(store) : ~Expired(k, now))
  /\ [][(committed' # committed \/ store' # store)
          => \A k \in DOMAIN Ledger(store') : ~ExpiredAt(committedAt', k, now)]_vars

\* C12 (amended): the set load_history returns has no entry older than 90
\* days, and the mapping a commit writes has none at the time of the
\* commit.
C12_PrunedWhereComputed ==
  /\ [](runStart = now => \A k \in seen0 : ~Expired(k, now))
  /\ [][(committed' # committed \/ store' # store)
          => \A k \in DOMAIN Ledger(store') : ~ExpiredAt(committedAt', k, now)]_vars

\* A load has left out an entry older than 90 days that the file still
\* holds, and returned a younger one.
C12_Witness ==
  /\ runStart = now
  /\ \E k1, k2 \in DOMAIN Ledger(store) :
       /\ Expired(k1, now) /\ k1 \notin seen0
       /\ ~Expired(k2, now) /\ k2 \in seen0

\* C13: the identifiers a run commits are those of the articles it handed
\* to the notifier; an identifier given to fetch_article_details of which
\* no article came back is not among them and is not in the file after the
\* commit, the next run's load does not return it, and the next run's
\* filter lets it through.
C13_CommitsExactlyNotified ==
  /\ [](committed # <<>>
          => /\ Len(notified) = 1
             /\ SeqToSet(Last(committed)) = SeqToSet(Pmids(notified[1].articles))
             /\ \A id \in missed :
                  /\ id \notin SeqToSet(Last(committed))
                  /\ JsonKey(id) \notin DOMAIN Ledger(store))
  /\ [](pc \in {"stats", "bootstrap", "search"} => missed \cap sent_pmids = {})
  /\ [][pc = "search" /\ pc' # "search"
          => \A k \in 1..Len(all_pmids') :
               all_pmids'[k] \in missed => all_pmids'[k] \in SeqToSet(pmid_list')]_vars

\* The next run has loaded the ledger of a run that committed some
\* identifiers and had got no article for another.
C13_Witness ==
  /\ pc = "search"
  /\ runs = 2
  /\ missed # {}
  /\ sent_pmids # {}
  /\ missed \cap sent_pmids = {}

\* The record parsed and, when the parser returned an article, the article.
TheRecord == article_elem[1]
TheArticle == article_data[1]
Returned == pc = "parsed" /\ article_data # <<>>

\* C14: _parse_article_element returns None exactly for the records with
\* no PMID element; for every other record it returns an article, with
\* the placeholder title, the journal unknown, the authors unknown, the
\* date unknown, the empty DOI and the empty abstract when the record has
\* no element for them.
C14_NullOnlyWithoutIdentifier ==
  pc = "parsed"
    => /\ (article_data = <<>>) <=> (TheRecord.pmid = AbsentElem)
       /\ article_data # <<>>
            => /\ TheRecord.title = AbsentStr => TheArticle.title = NoTitle
               /\ TheRecord.journal = AbsentStr => TheArticle.journal = NoJournal
               /\ TheRecord.author_elems = <<>> => TheArticle.authors = NoAuthors
               /\ TheRecord.pubdate = <<>> => TheArticle.pub_date = NoDate
               /\ TheRecord.article_ids = <<>> => TheArticle.doi = ""
               /\ TheRecord.abstract_elems = <<>> => TheArticle.abstract = ""

\* C15: while fetch_article_details runs, every retrieval call that is to
\* be followed by another has been followed by a pacing delay, whether or
\* not its payload parsed, and when the function returns the last call has
\* not been followed by one.
C15_PacingBetweenChunks ==
  pc \in {"fetch", "summarize"}
    => sleeps = IF i < Len(pmid_list) THEN Len(requested)
                ELSE IF requested = <<>> THEN 0 ELSE Len(requested) - 1

\* Writer w is the only process that has called add_sent_articles.
OnlyWriter(w) ==
  /\ writers[w].pc # "idle"
  /\ \A v \in Writers \ {w} : writers[v].pc = "idle"

\* C16: from the call of add_sent_articles on a file that holds a mapping
\* with entries, whether the call runs to its end or is stopped, the file
\* holds either the mapping it held before the call or the mapping the
\* call writes.
C16_AtomicRewrite ==
  \A w \in Writers :
    (OnlyWriter(w) /\ DOMAIN Ledger(store0) # {})
      => store = store0 \/ store = JsonFile(writers[w].history_data)

\* C17: when every process that called add_sent_articles has finished the
\* call, the file holds the identifiers of them all, in whatever order
\* their steps were taken.
C17_MergesConcurrentWrites ==
  (\A w \in Writers : writers[w].pc \in {"idle", "done"})
    => \A w \in Writers :
         writers[w].pc = "done"
           => store.ok /\ Keys(writers[w].pmids) \subseteq DOMAIN store.data

\* ceil(n / d)
Ceil(n, d) == (n + d - 1) \div d

\* C18: when fetch_article_details has ended, it has issued ceil(n/20)
\* retrieval calls for its n identifiers, each for 1 to 20 of them, and the
\* batches requested, one after the other, are the list it was given; for
\* the empty list it has issued none and returned no article.
C18_Chunking ==
  pc # "fetch"
    => /\ Len(requested) = Ceil(Len(pmid_list), batch_size)
       /\ \A c \in 1..Len(requested) :
            Len(requested[c]) >= 1 /\ Len(requested[c]) <= batch_size
       /\ Concat(requested) = pmid_list
       /\ pmid_list = <<>> => pc = "summarize" /\ final_articles = <<>>

\* The names the first three authors contribute: those with both name
\* parts, forename first.
RECURSIVE DisplayNames(_)
DisplayNames(elems) ==
  IF elems = <<>> THEN <<>>
  ELSE (IF Head(elems).lastname # AbsentStr /\ Head(elems).forename # AbsentStr
        THEN <<str(Head(elems).forename) \o " " \o str(Head(elems).lastname)>>
        ELSE <<>>)
         \o DisplayNames(Tail(elems))
FirstThree(elems) == SubSeq(elems, 1, Min(3, Len(elems)))

\* C19: the authors of an article are the names of the first three author
\* elements that have both name parts, followed by one "et al." exactly
\* when there is a fourth author element; when none of the first three
\* gives a name, with or without a fourth, they are the unknown marker.
C19_AuthorExtraction ==
  Returned
    => LET elems == TheRecord.author_elems
           names == DisplayNames(FirstThree(elems))
       IN  TheArticle.authors =
             IF names = <<>> THEN NoAuthors
             ELSE join(", ", names \o (IF Len(elems) > 3 THEN <<EtAl>> ELSE <<>>))

\* Every abstract section of the record has a label.
AllLabelled(elems) ==
  /\ elems # <<>>
  /\ \A k \in 1..Len(elems) : elems[k].label # AbsentStr

\* C20: when every abstract section has a label, the abstract is the
\* renderings "label: text" of the sections, one for each, in their order,
\* with one space between them.
C20_AbstractAssembly ==
  (Returned /\ AllLabelled(TheRecord.abstract_elems))
    => LET elems == TheRecord.abstract_elems
       IN  TheArticle.abstract =
             join(" ", [k \in 1..Len(elems) |->
                          elems[k].label \o ": "
                            \o (IF elems[k].text = NoneStr THEN "" ELSE elems[k].text)])

====
